---- MODULE Spec2Model ----
(***************************************************************************)
(* Model of src/app2.py, a Streamlit exploratory-data-analysis script.     *)
(*                                                                         *)
(* The script is re-executed from its first line on every user             *)
(* interaction.  Its module-level code renders the title and the file      *)
(* uploader and defines load_data, display_basic_info, plot_numeric_data,  *)
(* plot_categorical_data, plot_correlation_matrix and main; the file ends  *)
(* inside the body of main (line 156) and holds no call of main.           *)
(*                                                                         *)
(* A Table (pandas DataFrame) is [rows, cols]; a column is                 *)
(* [dtype, missing, distinct]: its pandas dtype, the number of missing     *)
(* cells, and the number of distinct non-missing values.  An optional      *)
(* value (Python None or a value v) is the tuple <<>> or <<v>>.            *)
(***************************************************************************)
EXTENDS Integers, Sequences, FiniteSets

VARIABLES
    uploaded_file,   \* the uploader widget's value: None or <<file>>       (line 20)
    sheet_choice,    \* the selectbox widget's state: 0 = never touched     (line 114)
    button,          \* the example button was clicked for the coming run   (line 136)
    cache,           \* st.cache_data's entry for load_example_data         (line 138)
    fetches,         \* how many times the remote URL was requested         (line 140)
    from_cache,      \* load_example_data was answered from the cache, this run
    pc,              \* position of the current script run
    exc,             \* the exception that left main uncaught, or "none"
    df,              \* main's local df                                     (line 111)
    sheet_names,     \* main's local sheet_names                            (line 111)
    sheet,           \* main's local sheet (0: unset)                       (line 114)
    example_df,      \* main's local example_df                             (line 142)
    rep,             \* which table the report functions are rendering
    out,             \* the page elements emitted by the current run, in order
    profile,         \* the buffer DataFrame of display_basic_info          (line 47)
    numeric_columns, \* the columns plot_numeric_data iterated over         (line 67)
    cat_out,         \* what plot_categorical_data emitted, per column      (line 85)
    corr_columns     \* the columns of the correlation matrix               (line 100)

vars == <<uploaded_file, sheet_choice, button, cache, fetches, from_cache, pc, exc,
          df, sheet_names, sheet, example_df, rep, out, profile, numeric_columns,
          cat_out, corr_columns>>

----------------------------------------------------------------------------
(* Bounds of the model                                                     *)

MaxRows == 26
MaxCols == 2
MaxSheets == 2
MaxFetches == 2

(* Program constant: the cardinality threshold of plot_categorical_data.   *)
MaxUnique == 25

----------------------------------------------------------------------------
(* Values                                                                  *)

None == <<>>

Some(v) == <<v>>

Dtypes == {"int64", "float64", "object", "bool", "datetime64"}

MissingChoices(r) == {0, 1, r} \cap (0..r)

DistinctChoices(r) == {0, 1, MaxUnique, MaxUnique + 1} \cap (0..r)

(* What pandas' readers can produce for a column of r rows: int64 and bool *)
(* columns hold no missing cell, a bool column has at most two values, a   *)
(* column read from zero data rows is of dtype object.                     *)
WellFormedColumn(c, r) ==
    /\ c.missing <= r
    /\ c.distinct <= r - c.missing
    /\ (r - c.missing > 0 => c.distinct >= 1)
    /\ (c.dtype \in {"int64", "bool"} => c.missing = 0)
    /\ (c.dtype = "bool" => c.distinct <= 2)
    /\ (r = 0 => c.dtype = "object")

ColumnsFor(r) ==
    {c \in [dtype : Dtypes, missing : MissingChoices(r), distinct : DistinctChoices(r)] :
        WellFormedColumn(c, r)}

RowChoices == {0, 1, MaxRows}

(* The tables of at most maxc columns whose row count is in rs; a table    *)
(* without columns has no rows.                                            *)
TablesOf(rs, maxc) ==
    UNION {UNION {{[rows |-> r, cols |-> s] : s \in [1..n -> ColumnsFor(r)]} :
                  n \in (IF r = 0 THEN 0 ELSE 1)..maxc} : r \in rs}

Tables == TablesOf(RowChoices, MaxCols)

(* The tables that uploaded files hold in the whole-program specification: *)
(* at most one row and one column, no missing cell.                        *)
FileTables ==
    {t \in TablesOf({0, 1}, 1) : \A i \in 1..Len(t.cols) : t.cols[i].missing = 0}

(* The remote example dataset (Titanic): integer, float-with-missing,      *)
(* low-cardinality text and high-cardinality text columns.                 *)
ExampleTable ==
    [rows |-> MaxUnique + 1,
     cols |-> <<[dtype |-> "int64", missing |-> 0, distinct |-> MaxUnique + 1],
                [dtype |-> "float64", missing |-> 1, distinct |-> MaxUnique],
                [dtype |-> "object", missing |-> 0, distinct |-> 1],
                [dtype |-> "object", missing |-> 0, distinct |-> MaxUnique + 1]>>]

(* The tables the sheets of uploaded workbooks hold: an empty sheet (no    *)
(* column) or a sheet of one integer column.                               *)
SheetTables ==
    {t \in FileTables : \A i \in 1..Len(t.cols) : t.cols[i].dtype = "int64"}

(* The content of one sheet: None when reading it raises, else its Table.  *)
SheetContents == {None} \cup {Some(t) : t \in SheetTables}

(* A CSV body: ok = FALSE when pd.read_csv raises on it (an empty body     *)
(* included: read_csv never returns a table without columns).              *)
CsvFiles(e) ==
    {[ext |-> e, ok |-> FALSE, sheets |-> <<>>]}
    \cup {[ext |-> e, ok |-> TRUE, sheets |-> <<Some(t)>>] :
             t \in {u \in FileTables : Len(u.cols) > 0}}

(* A workbook: ok = FALSE when pd.ExcelFile raises on it; a workbook that  *)
(* opens has at least one sheet.                                           *)
XlsxFiles ==
    {[ext |-> "xlsx", ok |-> FALSE, sheets |-> <<>>]}
    \cup {[ext |-> "xlsx", ok |-> TRUE, sheets |-> s] :
             s \in UNION {[1..n -> SheetContents] : n \in 1..MaxSheets}}

(* The files the uploader hands to the script: type=["csv", "xlsx"] is     *)
(* matched on the lower-cased extension, so DATA.CSV is accepted.          *)
Files == CsvFiles("csv") \cup CsvFiles("CSV") \cup XlsxFiles

El(e, o) == [el |-> e, of |-> o]

Emit(o, es) == [i \in 1..Len(es) |-> El(es[i], o)]

----------------------------------------------------------------------------
(* Arithmetic of pandas' float division, kept exact: a quotient is the     *)
(* reduced fraction <<numerator, denominator>>; 0/0 is NaN, as numpy       *)
(* divides (no exception is raised), and is kept as <<0, 0>>.              *)

RECURSIVE Gcd(_, _)
Gcd(a, b) == IF b = 0 THEN a ELSE Gcd(b, a % b)

NaN == <<0, 0>>

Inf == <<1, 0>>

Div(a, b) ==
    IF b = 0 THEN (IF a = 0 THEN NaN ELSE Inf)
    ELSE <<a \div Gcd(a, b), b \div Gcd(a, b)>>

Idx(n) == [i \in 1..n |-> i]

Elements(s) == {s[i] : i \in 1..Len(s)}

----------------------------------------------------------------------------
(* load_data, lines 23-39                                                  *)

EndsWith(f, suffix) == f.ext = suffix

(* The result of load_data(file): the pair it returns and whether          *)
(* st.error was called in the except branch.                               *)
Loaded(d, n, e) == [df |-> d, sheet_names |-> n, error |-> e]

load_data_eager(file) ==
    IF file = None THEN Loaded(None, None, FALSE)
    ELSE LET f == file[1] IN
         IF EndsWith(f, "csv")
         THEN IF f.ok THEN Loaded(f.sheets[1], None, FALSE)
                      ELSE Loaded(None, None, TRUE)
         ELSE IF EndsWith(f, "xlsx")
         THEN IF ~f.ok THEN Loaded(None, None, TRUE)
              ELSE IF f.sheets[1] # None
                   THEN Loaded(f.sheets[1], None, FALSE)
                   ELSE Loaded(None, None, TRUE)
         ELSE Loaded(None, None, FALSE)

load_data(file) ==
    IF file = None THEN Loaded(None, None, FALSE)                    \* line 39
    ELSE LET f == file[1] IN
         IF EndsWith(f, "csv")                                       \* line 26
         THEN IF f.ok THEN Loaded(f.sheets[1], None, FALSE)          \* line 28
                      ELSE Loaded(None, None, TRUE)                  \* lines 36-38
         ELSE IF EndsWith(f, "xlsx")                                 \* line 29
         THEN IF ~f.ok THEN Loaded(None, None, TRUE)                 \* line 30 raises
              ELSE IF Len(f.sheets) = 1                              \* line 31
                   THEN IF f.sheets[1] # None
                        THEN Loaded(f.sheets[1], None, FALSE)        \* line 33
                        ELSE Loaded(None, None, TRUE)                \* line 32 raises
                   ELSE Loaded(None, Some(Idx(Len(f.sheets))), FALSE) \* line 35
         ELSE Loaded(None, None, FALSE)                              \* falls to line 39

(* st.sidebar.selectbox(label, options): the option the user chose, the    *)
(* first option while the widget was never touched (index defaults to 0).  *)
selectbox(options, choice) ==
    IF choice \in 1..Len(options) THEN options[choice] ELSE options[1]

----------------------------------------------------------------------------
(* The report functions, lines 42-107                                      *)

(* The buffer DataFrame of lines 47-52, one row per column.                *)
ColumnProfile(t) ==
    [i \in 1..Len(t.cols) |->
        [column |-> i,
         dtype |-> t.cols[i].dtype,
         missing |-> t.cols[i].missing,
         pct |-> Div(t.cols[i].missing * 100, t.rows)]]

(* df.describe() raises ValueError on a frame without columns (line 63).   *)
DescribeRaises(t) == Len(t.cols) = 0

(* select_dtypes(include=['float64', 'int64']), lines 67 and 100           *)
IsNumericDtype(d) == d \in {"float64", "int64"}

(* select_dtypes(include=['object', 'category']), line 83                  *)
IsCategoricalDtype(d) == d \in {"object", "category"}

NumericColumns(t) ==
    LET Test(i) == IsNumericDtype(t.cols[i].dtype)
    IN SelectSeq(Idx(Len(t.cols)), Test)

CategoricalColumns(t) ==
    LET Test(i) == IsCategoricalDtype(t.cols[i].dtype)
    IN SelectSeq(Idx(Len(t.cols)), Test)

TooManyUniqueInclusive(c) == c.distinct >= MaxUnique

(* df[col].nunique() > 25, line 86                                         *)
TooManyUnique(c) == c.distinct > MaxUnique

(* The loop of lines 85-95: a notice or a chart per categorical column.    *)
plot_categorical_data(t) ==
    LET cs == CategoricalColumns(t)
    IN [k \in 1..Len(cs) |->
          [col |-> cs[k],
           shown |-> IF TooManyUnique(t.cols[cs[k]]) THEN "notice" ELSE "chart"]]

(* sns.heatmap raises ValueError on an empty matrix (line 104): the colour *)
(* range is a min/max over no value.                                       *)
HeatmapRaises(t) == Len(NumericColumns(t)) = 0

----------------------------------------------------------------------------
(* The page: what the widgets showed when the last run ended               *)

Shown(e) == \E i \in 1..Len(out) : out[i].el = e

(* The table display_basic_info and the plot functions were called with.   *)
Target == IF rep = "example" THEN example_df[1] ELSE df[1]

(* A rerun starts the script from its first line with fresh locals.        *)
Rerun ==
    /\ pc' = "script"
    /\ out' = <<>>
    /\ exc' = "none"
    /\ df' = None
    /\ sheet_names' = None
    /\ sheet' = 0
    /\ example_df' = None
    /\ rep' = "none"
    /\ from_cache' = FALSE
    /\ profile' = <<>>
    /\ numeric_columns' = <<>>
    /\ cat_out' = <<>>
    /\ corr_columns' = <<>>

Init ==
    /\ uploaded_file = None
    /\ sheet_choice = 0
    /\ button = FALSE
    /\ cache = None
    /\ fetches = 0
    /\ from_cache = FALSE
    /\ pc = "script"
    /\ exc = "none"
    /\ df = None
    /\ sheet_names = None
    /\ sheet = 0
    /\ example_df = None
    /\ rep = "none"
    /\ out = <<>>
    /\ profile = <<>>
    /\ numeric_columns = <<>>
    /\ cat_out = <<>>
    /\ corr_columns = <<>>

----------------------------------------------------------------------------
(* User interactions; each one makes Streamlit rerun the script            *)

(* A file is dropped on the uploader (line 20); a new file is a new widget *)
(* state for the sheet selectbox, whose options change.                    *)
Upload(f) ==
    /\ pc = "idle"
    /\ uploaded_file # Some(f)
    /\ uploaded_file' = Some(f)
    /\ sheet_choice' = 0
    /\ button' = FALSE
    /\ Rerun
    /\ UNCHANGED <<cache, fetches>>

(* The uploaded file is removed from the uploader.                         *)
RemoveFile ==
    /\ pc = "idle"
    /\ uploaded_file # None
    /\ uploaded_file' = None
    /\ sheet_choice' = 0
    /\ button' = FALSE
    /\ Rerun
    /\ UNCHANGED <<cache, fetches>>

(* The example button is clicked (line 136); it can be only where the last *)
(* run rendered it.  The click is bounded by the fetches it may cause.     *)
PressButton ==
    /\ pc = "idle"
    /\ Shown("button")
    /\ (cache = None => fetches < MaxFetches)
    /\ button' = TRUE
    /\ Rerun
    /\ UNCHANGED <<uploaded_file, sheet_choice, cache, fetches>>

(* A sheet is picked in the selectbox (line 114), where the last run       *)
(* rendered it.                                                            *)
ChooseSheet(i) ==
    /\ pc = "idle"
    /\ Shown("selectbox")
    /\ uploaded_file # None
    /\ i \in 1..Len(uploaded_file[1].sheets)
    /\ i # sheet_choice
    /\ sheet_choice' = i
    /\ button' = FALSE
    /\ Rerun
    /\ UNCHANGED <<uploaded_file, cache, fetches>>

----------------------------------------------------------------------------
(* The script, lines 1-156                                                 *)

(* Lines 9-20 render the title and the uploader; lines 23-156 only define  *)
(* functions.                                                              *)
RunScript ==
    /\ pc = "script"
    /\ out' = out \o Emit("page", <<"title", "uploader">>)
    /\ pc' = "module_end"
    /\ UNCHANGED <<uploaded_file, sheet_choice, button, cache, fetches, from_cache,
                   exc, df, sheet_names, sheet, example_df, rep, profile,
                   numeric_columns, cat_out, corr_columns>>

(* The end of the file is reached: the module holds no call of main, so    *)
(* the run is over and the page waits for the next interaction.            *)
ScriptEnd ==
    /\ pc = "module_end"
    /\ pc' = "idle"
    /\ button' = FALSE
    /\ UNCHANGED <<uploaded_file, sheet_choice, cache, fetches, from_cache, exc, df,
                   sheet_names, sheet, example_df, rep, out, profile,
                   numeric_columns, cat_out, corr_columns>>

(* main is entered: by a caller of the module, since the file has none.    *)
CallMain ==
    /\ pc = "module_end"
    /\ pc' = "main"
    /\ UNCHANGED <<uploaded_file, sheet_choice, button, cache, fetches, from_cache,
                   exc, df, sheet_names, sheet, example_df, rep, out, profile,
                   numeric_columns, cat_out, corr_columns>>

----------------------------------------------------------------------------
(* main, lines 110-156                                                     *)

(* Line 111: df, sheet_names = load_data(uploaded_file)                    *)
LoadData ==
    /\ pc = "main"
    /\ LET r == load_data(uploaded_file) IN
       /\ df' = r.df
       /\ sheet_names' = r.sheet_names
       /\ out' = IF r.error THEN out \o Emit("page", <<"error">>) ELSE out
    /\ pc' = "loaded"
    /\ UNCHANGED <<uploaded_file, sheet_choice, button, cache, fetches, from_cache,
                   exc, sheet, example_df, rep, profile, numeric_columns, cat_out,
                   corr_columns>>

(* Lines 113-115: the selectbox is rendered and the sheet it returns is    *)
(* read at once, outside any try: a sheet that cannot be read raises out   *)
(* of main.                                                                *)
SelectSheet ==
    /\ pc = "loaded"
    /\ IF sheet_names # None
       THEN LET s == selectbox(sheet_names[1], sheet_choice)
                content == uploaded_file[1].sheets[s]
            IN /\ out' = out \o Emit("page", <<"selectbox">>)
               /\ sheet' = s
               /\ IF content # None
                  THEN df' = content /\ pc' = "branch" /\ exc' = exc
                  ELSE df' = df /\ pc' = "crashed" /\ exc' = "read_excel"
       ELSE /\ pc' = "branch"
            /\ UNCHANGED <<out, sheet, df, exc>>
    /\ UNCHANGED <<uploaded_file, sheet_choice, button, cache, fetches, from_cache,
                   sheet_names, example_df, rep, profile, numeric_columns, cat_out,
                   corr_columns>>

(* Lines 117-120: df is not None; the header, df.head() and a divider.     *)
Preview ==
    /\ pc = "branch"
    /\ df # None
    /\ rep' = "upload"
    /\ out' = out \o Emit("upload", <<"header", "head", "divider">>)
    /\ pc' = "basic"
    /\ UNCHANGED <<uploaded_file, sheet_choice, button, cache, fetches, from_cache,
                   exc, df, sheet_names, sheet, example_df, profile, numeric_columns,
                   cat_out, corr_columns>>

(* The guard dropped: the notice and the button whatever df is.            *)
AwaitingUnguarded ==
    /\ pc = "branch"
    /\ out' = out \o Emit("page", <<"awaiting", "button">>)
    /\ pc' = IF button THEN "example_load" ELSE "end"
    /\ UNCHANGED <<uploaded_file, sheet_choice, button, cache, fetches, from_cache,
                   exc, df, sheet_names, sheet, example_df, rep, profile,
                   numeric_columns, cat_out, corr_columns>>

(* Lines 134-136: df is None; the notice and the example button, which is  *)
(* True in the run its click started.                                      *)
Awaiting ==
    /\ pc = "branch"
    /\ df = None
    /\ out' = out \o Emit("page", <<"awaiting", "button">>)
    /\ pc' = IF button THEN "example_load" ELSE "end"
    /\ UNCHANGED <<uploaded_file, sheet_choice, button, cache, fetches, from_cache,
                   exc, df, sheet_names, sheet, example_df, rep, profile,
                   numeric_columns, cat_out, corr_columns>>

(* Every call requests the URL: the decorator's cache is never consulted.  *)
LoadExampleUncached ==
    /\ pc = "example_load"
    /\ \E ok \in BOOLEAN :
          /\ fetches' = fetches + 1
          /\ from_cache' = FALSE
          /\ IF ok
             THEN /\ cache' = Some(ExampleTable)
                  /\ example_df' = Some(ExampleTable)
                  /\ pc' = "example_preview"
                  /\ exc' = exc
             ELSE /\ pc' = "crashed"
                  /\ exc' = "fetch"
                  /\ UNCHANGED <<cache, example_df>>
    /\ UNCHANGED <<uploaded_file, sheet_choice, button, df, sheet_names, sheet, rep,
                   out, profile, numeric_columns, cat_out, corr_columns>>

(* Lines 138-142: load_example_data under st.cache_data.  The cache is     *)
(* keyed by the function's module, qualified name and source, so it        *)
(* outlives the rerun that redefines the function; a stored value is       *)
(* returned without calling the function; a call that raises stores        *)
(* nothing and the exception leaves main.                                  *)
LoadExample ==
    /\ pc = "example_load"
    /\ IF cache # None
       THEN /\ example_df' = cache
            /\ from_cache' = TRUE
            /\ pc' = "example_preview"
            /\ UNCHANGED <<cache, fetches, exc>>
       ELSE \E ok \in BOOLEAN :
               /\ fetches' = fetches + 1
               /\ from_cache' = FALSE
               /\ IF ok
                  THEN /\ cache' = Some(ExampleTable)
                       /\ example_df' = Some(ExampleTable)
                       /\ pc' = "example_preview"
                       /\ exc' = exc
                  ELSE /\ pc' = "crashed"
                       /\ exc' = "fetch"
                       /\ UNCHANGED <<cache, example_df>>
    /\ UNCHANGED <<uploaded_file, sheet_choice, button, df, sheet_names, sheet, rep,
                   out, profile, numeric_columns, cat_out, corr_columns>>

(* Lines 143-144: example_df.head() and a divider (no header).             *)
ExamplePreview ==
    /\ pc = "example_preview"
    /\ rep' = "example"
    /\ out' = out \o Emit("example", <<"head", "divider">>)
    /\ pc' = "basic"
    /\ UNCHANGED <<uploaded_file, sheet_choice, button, cache, fetches, from_cache,
                   exc, df, sheet_names, sheet, example_df, profile, numeric_columns,
                   cat_out, corr_columns>>

(* display_basic_info without the caller's divider after it.               *)
BasicInfoNoDivider ==
    /\ pc = "basic"
    /\ profile' = ColumnProfile(Target)
    /\ IF DescribeRaises(Target)
       THEN /\ out' = out \o Emit(rep, <<"subheader_basic", "columns", "shape",
                                         "profile", "info", "subheader_summary">>)
            /\ pc' = "crashed"
            /\ exc' = "describe"
       ELSE /\ out' = out \o Emit(rep, <<"subheader_basic", "columns", "shape",
                                         "profile", "info", "subheader_summary",
                                         "describe">>)
            /\ pc' = "numeric"
            /\ exc' = exc
    /\ UNCHANGED <<uploaded_file, sheet_choice, button, cache, fetches, from_cache,
                   df, sheet_names, sheet, example_df, rep, numeric_columns, cat_out,
                   corr_columns>>

(* Lines 122-123 and 146-147: display_basic_info (lines 42-63) emits the   *)
(* subheader, the column names, the shape, the per-column table, the       *)
(* df.info() text, the second subheader and df.describe(); the caller then *)
(* writes one divider.                                                     *)
BasicInfo ==
    /\ pc = "basic"
    /\ profile' = ColumnProfile(Target)
    /\ IF DescribeRaises(Target)
       THEN /\ out' = out \o Emit(rep, <<"subheader_basic", "columns", "shape",
                                         "profile", "info", "subheader_summary">>)
            /\ pc' = "crashed"
            /\ exc' = "describe"
       ELSE /\ out' = out \o Emit(rep, <<"subheader_basic", "columns", "shape",
                                         "profile", "info", "subheader_summary",
                                         "describe", "divider">>)
            /\ pc' = "numeric"
            /\ exc' = exc
    /\ UNCHANGED <<uploaded_file, sheet_choice, button, cache, fetches, from_cache,
                   df, sheet_names, sheet, example_df, rep, numeric_columns, cat_out,
                   corr_columns>>

(* Lines 125-126 and 149-150: plot_numeric_data (lines 66-79), a figure    *)
(* pair per numeric column, then a divider.                                *)
Numeric ==
    /\ pc = "numeric"
    /\ numeric_columns' = NumericColumns(Target)
    /\ out' = out \o Emit(rep, <<"subheader_numeric", "numeric", "divider">>)
    /\ pc' = "categorical"
    /\ UNCHANGED <<uploaded_file, sheet_choice, button, cache, fetches, from_cache,
                   exc, df, sheet_names, sheet, example_df, rep, profile, cat_out,
                   corr_columns>>

(* Lines 128-129 and 152-153: plot_categorical_data (lines 82-95), then a  *)
(* divider.                                                                *)
Categorical ==
    /\ pc = "categorical"
    /\ cat_out' = plot_categorical_data(Target)
    /\ out' = out \o Emit(rep, <<"subheader_categorical", "categorical", "divider">>)
    /\ pc' = "correlation"
    /\ UNCHANGED <<uploaded_file, sheet_choice, button, cache, fetches, from_cache,
                   exc, df, sheet_names, sheet, example_df, rep, profile,
                   numeric_columns, corr_columns>>

(* Lines 131-132 and 155-156: plot_correlation_matrix (lines 98-107), then *)
(* a divider; the heatmap of no numeric column raises out of main.         *)
Correlation ==
    /\ pc = "correlation"
    /\ corr_columns' = NumericColumns(Target)
    /\ IF HeatmapRaises(Target)
       THEN /\ out' = out \o Emit(rep, <<"subheader_corr">>)
            /\ pc' = "crashed"
            /\ exc' = "heatmap"
       ELSE /\ out' = out \o Emit(rep, <<"subheader_corr", "heatmap", "divider">>)
            /\ pc' = "end"
            /\ exc' = exc
    /\ UNCHANGED <<uploaded_file, sheet_choice, button, cache, fetches, from_cache,
                   df, sheet_names, sheet, example_df, rep, profile, numeric_columns,
                   cat_out>>

(* main returned, or an exception left it: the run is over, the page keeps *)
(* what was rendered, and the button's click is consumed.                  *)
EndRun ==
    /\ pc \in {"end", "crashed"}
    /\ pc' = "idle"
    /\ button' = FALSE
    /\ UNCHANGED <<uploaded_file, sheet_choice, cache, fetches, from_cache, exc, df,
                   sheet_names, sheet, example_df, rep, out, profile,
                   numeric_columns, cat_out, corr_columns>>

----------------------------------------------------------------------------
(* The program: the script as Streamlit runs it, with main callable.       *)

Next ==
    \/ \E f \in Files : Upload(f)
    \/ RemoveFile
    \/ PressButton
    \/ \E i \in 1..MaxSheets : ChooseSheet(i)
    \/ RunScript
    \/ ScriptEnd
    \/ CallMain
    \/ LoadData
    \/ SelectSheet
    \/ Preview
    \/ Awaiting
    \/ LoadExample
    \/ ExamplePreview
    \/ BasicInfo
    \/ Numeric
    \/ Categorical
    \/ Correlation
    \/ EndRun

Spec == Init /\ [][Next]_vars

(* The report functions applied to any Table: main from line 117 on, with  *)
(* df drawn from Tables.                                                   *)
InitReport ==
    /\ uploaded_file = None
    /\ sheet_choice = 0
    /\ button = FALSE
    /\ cache = None
    /\ fetches = 0
    /\ from_cache = FALSE
    /\ pc = "branch"
    /\ exc = "none"
    /\ df \in {Some(t) : t \in Tables}
    /\ sheet_names = None
    /\ sheet = 0
    /\ example_df = None
    /\ rep = "none"
    /\ out = <<>>
    /\ profile = <<>>
    /\ numeric_columns = <<>>
    /\ cat_out = <<>>
    /\ corr_columns = <<>>

NextReport ==
    \/ Preview
    \/ BasicInfo
    \/ Numeric
    \/ Categorical
    \/ Correlation

SpecReport == InitReport /\ [][NextReport]_vars

----------------------------------------------------------------------------
(* Vocabulary of the properties                                            *)

HasFile == uploaded_file # None

File == uploaded_file[1]

IsWorkbook == HasFile /\ File.ext = "xlsx" /\ File.ok

SingleSheet == IsWorkbook /\ Len(File.sheets) = 1

MultiSheet == IsWorkbook /\ Len(File.sheets) > 1

(* main is past its call of load_data in the current run.                  *)
AfterLoad ==
    pc \in {"loaded", "branch", "example_load", "example_preview", "basic",
            "numeric", "categorical", "correlation", "end", "crashed"}

ReportOf(o) == \E i \in 1..Len(out) : out[i].of = o

(* The read inside load_data raises: the CSV read, the sheet enumeration   *)
(* or the read of the only sheet.                                          *)
LoadRaises ==
    /\ HasFile
    /\ File.ext \in {"csv", "xlsx"}
    /\ \/ ~File.ok
       \/ SingleSheet /\ File.sheets[1] = None

(* Every read of the uploaded file succeeds, the selected sheet's too.     *)
Loadable ==
    /\ HasFile
    /\ File.ext \in {"csv", "xlsx"}
    /\ File.ok
    /\ File.sheets[selectbox(Idx(Len(File.sheets)), sheet_choice)] # None

(* The report section an element belongs to, 0 for headers and dividers.   *)
Section(e) ==
    CASE e = "head" -> 1
      [] e \in {"columns", "shape"} -> 2
      [] e = "profile" -> 3
      [] e = "info" -> 4
      [] e = "describe" -> 5
      [] e = "numeric" -> 6
      [] e = "categorical" -> 7
      [] e = "heatmap" -> 8
      [] OTHER -> 0

SectionsInOrder ==
    \A i \in 1..Len(out) : \A j \in i..Len(out) :
        (Section(out[i].el) > 0 /\ Section(out[j].el) > 0)
            => Section(out[i].el) <= Section(out[j].el)

DividerBetween(a, b) ==
    \A i \in 1..Len(out) : \A j \in i..Len(out) :
        (Section(out[i].el) = a /\ Section(out[j].el) = b)
            => \E k \in i..j : out[k].el = "divider"

NoDividerWithin(a, b) ==
    \A i \in 1..Len(out) : \A j \in i..Len(out) :
        (Section(out[i].el) \in a..b /\ Section(out[j].el) \in a..b)
            => \A k \in i..j : out[k].el # "divider"

AllSections == \A n \in 1..8 : \E i \in 1..Len(out) : Section(out[i].el) = n

(* main returned after rendering a report.                                 *)
ReportComplete == pc = "end" /\ rep # "none"

----------------------------------------------------------------------------
C2_LoadFailuresCaught ==
    /\ exc # "read_excel"
    /\ (AfterLoad /\ LoadRaises)
          => (Shown("error") /\ ~ReportOf("upload") /\ ~ReportOf("example"))
    /\ (pc = "end" /\ LoadRaises) => Shown("awaiting")

(* C3: load_data given a file whose name ends with neither .csv nor .xlsx  *)
(* fails with an error that is displayed; the file is not treated like no  *)
(* file at all.                                                            *)
C3_UnsupportedExtensionReported ==
    (pc = "loaded" /\ HasFile /\ File.ext \notin {"csv", "xlsx"}) => Shown("error")

(* C4: for every column, the missing percentage display_basic_info reports *)
(* is missing_count / row_count * 100 when row_count > 0 and is 0 when     *)
(* row_count = 0 (never NaN).                                              *)
C4_MissingPercentage ==
    Shown("profile") =>
        /\ Len(profile) = Len(Target.cols)
        /\ \A i \in 1..Len(profile) :
              /\ profile[i].missing = Target.cols[i].missing
              /\ IF Target.rows > 0
                 THEN /\ profile[i].pct[2] > 0
                      /\ profile[i].pct[1] * Target.rows
                            = profile[i].missing * 100 * profile[i].pct[2]
                 ELSE profile[i].pct = <<0, 1>>

(* C5: plot_categorical_data charts a categorical column if and only if it *)
(* has at most 25 distinct non-missing values, writes the notice for it    *)
(* otherwise, and gives every categorical column exactly one of the two.   *)
C5_CardinalityGuard ==
    Shown("categorical") =>
        \A i \in 1..Len(Target.cols) :
            LET entries == {k \in 1..Len(cat_out) : cat_out[k].col = i} IN
            IF Target.cols[i].dtype \in {"object", "category"}
            THEN /\ Cardinality(entries) = 1
                 /\ \A k \in entries :
                       /\ cat_out[k].shown \in {"chart", "notice"}
                       /\ cat_out[k].shown = "chart" <=> Target.cols[i].distinct <= 25
            ELSE entries = {}

(* A column of exactly 25 distinct values is charted beside a column of 26 *)
(* that gets the notice.                                                   *)
C5_Witness ==
    /\ Shown("categorical")
    /\ \E a, b \in 1..Len(cat_out) :
          /\ Target.cols[cat_out[a].col].distinct = 25
          /\ cat_out[a].shown = "chart"
          /\ Target.cols[cat_out[b].col].distinct = 26
          /\ cat_out[b].shown = "notice"

C7_UploadedFileIsReported ==
    (pc = "idle" /\ Loadable) => (rep = "upload" /\ AllSections)

(* C8: every column is numeric or categorical and never both: the columns  *)
(* plot_numeric_data handles and those plot_categorical_data handles are   *)
(* disjoint and together are all the columns of the Table.                 *)
C8_ColumnsPartitioned ==
    Shown("categorical") =>
        LET N == Elements(numeric_columns)
            C == {cat_out[k].col : k \in 1..Len(cat_out)}
        IN /\ N \cap C = {}
           /\ N \cup C = 1..Len(Target.cols)
           /\ \A i \in N : Target.cols[i].dtype \in {"int64", "float64"}

(* C9 (as stated): however often the example button is pressed, the remote *)
(* URL is fetched at most once.                                            *)
C9_FetchedAtMostOnce == fetches <= 1

(* C9 (amended): a successful fetch is cached process-wide: once the URL   *)
(* was fetched successfully it is never requested again and every example  *)
(* report is rendered from the cached Table; a fetch that fails caches     *)
(* nothing, so the next press of the button requests the URL again.        *)
C9_NoRefetchOnceCached ==
    /\ [](rep = "example" => (cache # None /\ example_df = cache))
    /\ [][cache # None => (fetches' = fetches /\ cache' = cache)]_vars

(* A later press of the button is reported in full from the cache.         *)
C9_Witness ==
    from_cache /\ fetches = 1 /\ ReportComplete /\ rep = "example" /\ AllSections

(* C10: a run of main reports at most one dataset: the awaiting notice and *)
(* the example button appear only when the upload gave no Table, the       *)
(* example report is never rendered beside an uploaded table's report, and *)
(* load_data never returns both a Table and a sheet-name list.             *)
C10_AtMostOneDataset ==
    /\ (Shown("awaiting") \/ Shown("button")) => df = None
    /\ ~(ReportOf("upload") /\ ReportOf("example"))
    /\ ReportOf("example") => df = None
    /\ pc = "loaded" => ~(df # None /\ sheet_names # None)

(* The example report rendered in a run whose uploaded file failed to load. *)
C10_Witness ==
    /\ HasFile
    /\ Shown("error")
    /\ Shown("awaiting")
    /\ ReportComplete
    /\ rep = "example"

====
